---- MODULE Spec2Model ----
(***************************************************************************)
(* Authentication and authorization core of the school administration     *)
(* backend: the canonical users collection, the two legacy identity       *)
(* collections (admins, school_admins), the JWT access / refresh tokens,  *)
(* the protect middleware, the role policy middlewares and the tenant     *)
(* scoped read endpoints.                                                 *)
(*                                                                         *)
(* Every request handler is a process: one step per store round trip      *)
(* (each `await` on a Mongoose call), so that concurrent requests          *)
(* interleave exactly where the Node event loop lets them.                 *)
(***************************************************************************)
EXTENDS Integers, FiniteSets, Sequences, TLC

(* ------------------------------ bounds -------------------------------- *)

\* Requests the clients send in one behaviour.
MaxRequests == 3
\* Seconds the clock may advance (jwt `iat` has a resolution of one second).
MaxTime == 2

\* Requests in flight at the same time.
Procs == {1, 2}
Emails == {"a@x.com", "b@y.com"}
\* One address typed in two letter cases.
CaseEmails == {"a@x.com", "A@x.com"}
Passwords == {"secret1", "secret2"}
Roles == {"super_admin", "school_admin"}
Targets == {"users", "admins"}

(* --------------------------- configuration ---------------------------- *)

\* process.env.SUPER_ADMIN_EMAIL / SUPER_ADMIN_PASSWORD: the env super admin.
SUPER_ADMIN_EMAIL == "a@x.com"
SUPER_ADMIN_PASSWORD == "secret2"

(* ------------------------------ bcrypt -------------------------------- *)

\* A string handed to bcrypt: a plaintext is n = 0, bcrypt.hash adds one layer.
\* The salt is left out: it never changes what bcrypt.compare answers.
Plain(pw) == [pw |-> pw, n |-> 0]
NoHash == [pw |-> "none", n |-> 0]
BcryptHash(x) == [pw |-> x.pw, n |-> x.n + 1]
\* bcrypt.compare(entered, stored): stored is the hash of the entered plaintext.
BcryptCompare(pw, h) == h = BcryptHash(Plain(pw))

(* ------------------------------- tokens ------------------------------- *)

NoToken == [kind |-> "none", id |-> 0, iat |-> 0]
\* jwt.sign({ id }, secret, { expiresIn }): HS256 is deterministic, so the token
\* is a function of the secret (kind), the payload id and iat (seconds).
AccessTokenSign(id, t) == [kind |-> "access", id |-> id, iat |-> t]
RefreshTokenSign(id, t) == [kind |-> "refresh", id |-> id, iat |-> t]

\* expiresIn: '7d' and '30d', in seconds.
JWT_EXPIRES_IN == 604800
JWT_REFRESH_EXPIRES_IN == 2592000

(* ------------------------------- state -------------------------------- *)

VARIABLES
  users,          \* the canonical `users` collection: a set of documents
  admins,         \* the legacy `admins` collection
  schoolAdmins,   \* the legacy `school_admins` collection
  schools,        \* ids of the School documents (tenants)
  totalStudents,  \* School.totalStudents, by school id
  students,       \* the `students` collection: documents with their schoolId
  env,            \* process.env, as far as the documentation names its flags
  nextId,         \* next ObjectId of a users document
  now,            \* wall clock, in seconds
  issued,         \* tokens the server has returned to callers
  started,        \* requests sent so far
  req             \* per process: the request in flight, then its response

vars == <<users, admins, schoolAdmins, students, env, schools, totalStudents, nextId, now, issued, started, req>>

\* The Mongoose document a handler holds in memory.
NoDoc ==
  [id |-> 0, email |-> "none", password |-> NoHash, pwMod |-> FALSE, rehash |-> FALSE,
   role |-> "none", schoolId |-> 0]

ReqIdle ==
  [op |-> "none", pc |-> "idle", email |-> "none", pw |-> "none", role |-> "none",
   target |-> "none", tok |-> NoToken, schoolId |-> 0, doc |-> NoDoc,
   status |-> 0, msg |-> "none", outId |-> 0, outAccess |-> NoToken,
   outRefresh |-> NoToken, via |-> "none", filter |-> 0, out |-> {},
   bodySchoolId |-> 0, ids |-> {}]

\* A new users document with the schema's defaults.
NewUser(id, email, hash, role, t) ==
  [id |-> id, email |-> email, password |-> hash, role |-> role, schoolId |-> 0,
   isActive |-> TRUE, refreshToken |-> NoToken, lastLogin |-> t]

LegacyRecord(email, hash, deleted) ==
  [email |-> email, password |-> hash, isDeleted |-> deleted]

(* --------------------------- store operations -------------------------- *)

UsersByEmail(email) == {u \in users : u.email = email}
UsersById(id) == {u \in users : u.id = id}
TheUser(S) == CHOOSE u \in S : TRUE

\* The unique index on users.email: a write that would leave two documents
\* with this email fails with E11000.
MutDuplicateKeyOff(email, selfId) == FALSE
DuplicateKey(email, selfId) == \E u \in users : u.email = email /\ u.id # selfId

\* The unique index on admins.email.
AdminDuplicateKey(email) == \E a \in admins : a.email = email

\* Model.findOne({ email, isDeleted: { $ne: true } }) on a legacy collection.
LegacyFind(coll, email) == {a \in coll : a.email = email /\ a.isDeleted # TRUE}

\* updateOne({ _id }, { $set: upd }): the documents after the write.
SetFields(id, upd) == {IF u.id = id THEN upd @@ u ELSE u : u \in users}

(* --------------------------- pre('save') hook -------------------------- *)

\* userSchema.pre('save'): `if (!this.isModified('password')) { next() }` has no
\* return, so the hook goes on to hash this.password in every case.
\*  - password modified: the hash is awaited and saved (the intended path);
\*  - password not modified: next() has let the save go on; the hash of the
\*    (already hashed) password finishes later and is assigned to the in-memory
\*    document, marking `password` modified for the document's next save. When
\*    the document was loaded without the password, bcrypt rejects and nothing
\*    changes.
PreSaveDoc(doc) == IF doc.pwMod THEN [doc EXCEPT !.password = BcryptHash(@)] ELSE doc
PreSaveDangling(doc) == ~doc.pwMod /\ doc.password # NoHash
\* The in-memory document once save() has sent its update: $__reset clears the
\* modified paths when the update is dispatched.
AfterSave(doc) ==
  [PreSaveDoc(doc) EXCEPT !.pwMod = FALSE, !.rehash = doc.rehash \/ PreSaveDangling(doc)]
\* save() writes the modified paths only; password is one of them when modified.
SavedPassword(doc) ==
  IF doc.pwMod THEN [password |-> PreSaveDoc(doc).password] ELSE <<>>

(* ------------------------------ responses ------------------------------ *)

Respond(r, status, msg) ==
  [r EXCEPT !.pc = "done", !.status = status, !.msg = msg, !.doc = NoDoc]
RespondTokens(r, status, id, access, refresh) ==
  [r EXCEPT !.pc = "done", !.status = status, !.msg = "ok", !.doc = NoDoc,
            !.outId = id, !.outAccess = access, !.outRefresh = refresh]

\* A request is taken by the lowest process that is not in flight.
Free(p) == req[p].pc \in {"idle", "done"}
CanStart(p) == Free(p) /\ started < MaxRequests /\ \A q \in Procs : q < p => ~Free(q)

Begin(p, r) ==
  /\ CanStart(p)
  /\ req' = [req EXCEPT ![p] = r]
  /\ started' = started + 1

(* ------------------------------ register ------------------------------- *)

\* body('email').isEmail() accepts the address as typed: letter case is kept.
StartRegisterEmail(p, emails, pws, roles, targets) ==
  \E e \in emails, pw \in pws, role \in roles, target \in targets :
    /\ Begin(p, [ReqIdle EXCEPT !.op = "register", !.pc = "reg_check", !.email = e,
                                !.pw = pw, !.role = role, !.target = target])
    /\ UNCHANGED <<users, admins, schoolAdmins, students, env, schools, totalStudents, nextId, now, issued>>

StartRegister(p, pws, roles, targets) == StartRegisterEmail(p, Emails, pws, roles, targets)

\* The existence check: against admins when target is admins, else against users.
RegisterCheck(p) ==
  LET r == req[p]
      taken == IF r.target = "admins" THEN AdminDuplicateKey(r.email)
               ELSE UsersByEmail(r.email) # {}
  IN /\ r.pc = "reg_check"
     /\ req' = [req EXCEPT ![p] =
                  IF taken THEN Respond(r, 400, "Email already registered")
                  ELSE [r EXCEPT !.pc = "reg_create"]]
     /\ UNCHANGED <<users, admins, schoolAdmins, students, env, schools, totalStudents, nextId, now, issued, started>>

\* User.create({ name, email, password, role }): the password is hashed by the
\* pre('save') hook; the unique index rejects a second document of the email.
RegisterCreate(p) ==
  LET r == req[p]
      h == BcryptHash(Plain(r.pw))
  IN /\ r.pc = "reg_create"
     /\ IF DuplicateKey(r.email, 0)
        THEN /\ req' = [req EXCEPT ![p] = Respond(r, 500, "Server error")]
             /\ UNCHANGED <<users, nextId>>
        ELSE /\ users' = users \cup {NewUser(nextId, r.email, h, r.role, now)}
             /\ nextId' = nextId + 1
             /\ req' = [req EXCEPT ![p] =
                   [r EXCEPT !.pc = IF r.target = "admins" THEN "reg_admin" ELSE "reg_save",
                             !.doc = [NoDoc EXCEPT !.id = nextId, !.email = r.email,
                                                   !.password = h]]]
     /\ UNCHANGED <<admins, schoolAdmins, students, env, schools, totalStudents, now, issued, started>>

\* Admin.create({ name, email, password: temp.password, isDeleted: false }).
RegisterAdmin(p) ==
  LET r == req[p]
  IN /\ r.pc = "reg_admin"
     /\ IF AdminDuplicateKey(r.email)
        THEN /\ req' = [req EXCEPT ![p] = Respond(r, 500, "Server error")]
             /\ UNCHANGED admins
        ELSE /\ admins' = admins \cup {LegacyRecord(r.email, r.doc.password, FALSE)}
             /\ req' = [req EXCEPT ![p] = [r EXCEPT !.pc = "reg_save"]]
     /\ UNCHANGED <<users, schoolAdmins, students, env, schools, totalStudents, nextId, now, issued, started>>

\* Tokens are signed, the refresh token is saved on the document, 201.
RegisterSave(p) ==
  LET r == req[p]
      access == AccessTokenSign(r.doc.id, now)
      refresh == RefreshTokenSign(r.doc.id, now)
  IN /\ r.pc = "reg_save"
     /\ IF UsersById(r.doc.id) = {}
        THEN /\ req' = [req EXCEPT ![p] = Respond(r, 500, "Server error")]
             /\ UNCHANGED <<users, issued>>
        ELSE /\ users' = SetFields(r.doc.id,
                   [refreshToken |-> refresh] @@ SavedPassword(r.doc))
             /\ issued' = issued \cup {access, refresh}
             /\ req' = [req EXCEPT ![p] = RespondTokens(r, 201, r.doc.id, access, refresh)]
     /\ UNCHANGED <<admins, schoolAdmins, students, env, schools, totalStudents, nextId, now, started>>

(* -------------------------------- login -------------------------------- *)

\* The env super admin branch is taken on an exact match of both env values.
EnvSuperAdmin(email, pw) == email = SUPER_ADMIN_EMAIL /\ pw = SUPER_ADMIN_PASSWORD

StartLogin(p, emails, pws) ==
  \E e \in emails, pw \in pws :
    /\ Begin(p, [ReqIdle EXCEPT !.op = "login", !.email = e, !.pw = pw,
                                !.pc = IF EnvSuperAdmin(e, pw) THEN "env_upsert"
                                       ELSE "login_find"])
    /\ UNCHANGED <<users, admins, schoolAdmins, students, env, schools, totalStudents, nextId, now, issued>>

\* { upsert: true, new: true, setDefaultsOnInsert: true }
UpsertOption == TRUE

\* The fields the update document of an upsert sets on a matched document.
UpsertSet(upd) == [password |-> upd.password, role |-> upd.role, isActive |-> TRUE]

\* findOneAndUpdate({ email }, update, { upsert: true, new: true }) on users, as
\* the server runs it: the filter is matched; a match is updated in place; with
\* no match the update document is inserted (the next step), where the unique
\* index may find that another request has inserted the email meanwhile.
\* `upd` carries the fields the update sets; `next` is the pc after the call,
\* `sel` tells whether the returned document carries its password, and `off`
\* is how the handler goes on when the call returns no document.
UpsertMatch(p, upd, next, sel, off) ==
  LET r == req[p]
      found == UsersByEmail(r.email)
  IN IF found # {}
     THEN LET u == TheUser(found)
          IN /\ users' = SetFields(u.id, UpsertSet(upd))
             /\ req' = [req EXCEPT ![p] =
                   [r EXCEPT !.pc = next,
                             !.doc = [NoDoc EXCEPT !.id = u.id, !.email = r.email,
                                        !.password = IF sel THEN upd.password ELSE NoHash]]]
     ELSE /\ UNCHANGED users
          /\ req' = [req EXCEPT ![p] =
                IF UpsertOption THEN [r EXCEPT !.pc = r.pc \o "_insert"] ELSE off]

\* The unique index on users.email as the insert half of an upsert meets it.
MutUpsertNoIndex(email) == FALSE
UpsertDuplicateKey(email) == DuplicateKey(email, 0)

\* The insert half of the upsert. A duplicate key met here is either retried by
\* the server as an update of the document now present, or returned as E11000
\* (the handler's catch answers 500), depending on the server.
UpsertInsert(p, upd, next, sel) ==
  LET r == req[p]
      found == UsersByEmail(r.email)
      loaded(id) == [NoDoc EXCEPT !.id = id, !.email = r.email,
                                  !.password = IF sel THEN upd.password ELSE NoHash]
  IN IF ~UpsertDuplicateKey(r.email)
     THEN /\ users' = users \cup {NewUser(nextId, r.email, upd.password, upd.role, now)}
          /\ nextId' = nextId + 1
          /\ req' = [req EXCEPT ![p] = [r EXCEPT !.pc = next, !.doc = loaded(nextId)]]
     ELSE /\ UNCHANGED nextId
          /\ \/ /\ users' = SetFields(TheUser(found).id, UpsertSet(upd))
                /\ req' = [req EXCEPT ![p] =
                      [r EXCEPT !.pc = next, !.doc = loaded(TheUser(found).id)]]
             \/ /\ UNCHANGED users
                /\ req' = [req EXCEPT ![p] = Respond(r, 500, "Server error")]

\* The env super admin mirror: the password is hashed afresh (10 rounds) and
\* upserted on every such login.
EnvUpdate(r) == [password |-> BcryptHash(Plain(r.pw)), role |-> "super_admin"]

EnvUpsert(p) ==
  /\ req[p].pc = "env_upsert"
  /\ UpsertMatch(p, EnvUpdate(req[p]), "env_save", FALSE,
                 Respond(req[p], 500, "Server error"))
  /\ UNCHANGED <<admins, schoolAdmins, students, env, schools, totalStudents, nextId, now, issued, started>>

EnvUpsertInsert(p) ==
  /\ req[p].pc = "env_upsert_insert"
  /\ UpsertInsert(p, EnvUpdate(req[p]), "env_save", FALSE)
  /\ UNCHANGED <<admins, schoolAdmins, students, env, schools, totalStudents, now, issued, started>>

\* Tokens for the document `doc` of request `r`, and the save of the refresh token.
IssueAndSave(p, status) ==
  LET r == req[p]
      access == AccessTokenSign(r.doc.id, now)
      refresh == RefreshTokenSign(r.doc.id, now)
  IN IF UsersById(r.doc.id) = {}
     THEN /\ req' = [req EXCEPT ![p] = Respond(r, 500, "Server error")]
          /\ UNCHANGED <<users, issued>>
     ELSE /\ users' = SetFields(r.doc.id, [refreshToken |-> refresh] @@ SavedPassword(r.doc))
          /\ issued' = issued \cup {access, refresh}
          /\ req' = [req EXCEPT ![p] = RespondTokens(r, status, r.doc.id, access, refresh)]

EnvSave(p) ==
  /\ req[p].pc = "env_save"
  /\ IssueAndSave(p, 200)
  /\ UNCHANGED <<admins, schoolAdmins, students, env, schools, totalStudents, nextId, now, started>>

MutWrongPasswordTold(r) == Respond(r, 401, "Wrong password")
\* `if (!isMatch) return res.status(401).json({ message: 'Invalid credentials' })`
WrongPassword(r) == Respond(r, 401, "Invalid credentials")

MutLoginFindStamps(p) ==
  /\ req[p].pc = "login_find"
  /\ users' = {IF u.email = req[p].email THEN [u EXCEPT !.lastLogin = now + 1] ELSE u :
                u \in users}
  /\ req' = [req EXCEPT ![p] = WrongPassword(req[p])]
  /\ UNCHANGED <<admins, schoolAdmins, students, env, schools, totalStudents, nextId, now, issued, started>>
\* User.findOne({ email }).select('+password'), then the canonical checks.
LoginFind(p) ==
  LET r == req[p]
      found == UsersByEmail(r.email)
      u == TheUser(found)
  IN /\ r.pc = "login_find"
     /\ req' = [req EXCEPT ![p] =
          IF found = {} THEN [r EXCEPT !.pc = "login_admins"]
          ELSE IF ~u.isActive THEN Respond(r, 401, "Account is deactivated")
          ELSE IF ~BcryptCompare(r.pw, u.password) THEN WrongPassword(r)
          ELSE [r EXCEPT !.pc = "login_last",
                         !.doc = [NoDoc EXCEPT !.id = u.id, !.email = u.email,
                                               !.password = u.password]]]
     /\ UNCHANGED <<users, admins, schoolAdmins, students, env, schools, totalStudents, nextId, now, issued, started>>

\* A probe of one legacy collection: absent -> go on as `miss`; present with a
\* hash that does not verify -> 401 at once; present and verified -> upsert.
LegacyProbe(p, coll, miss, hit) ==
  LET r == req[p]
      found == LegacyFind(coll, r.email)
      a == TheUser(found)
  IN req' = [req EXCEPT ![p] =
       IF found = {} THEN miss
       ELSE IF ~BcryptCompare(r.pw, a.password) THEN Respond(r, 401, "Invalid credentials")
       ELSE [r EXCEPT !.pc = hit, !.via = hit,
                      !.doc = [NoDoc EXCEPT !.password = a.password]]]

LoginAdmins(p) ==
  /\ req[p].pc = "login_admins"
  /\ LegacyProbe(p, admins, [req[p] EXCEPT !.pc = "login_sadmins"], "adm_upsert")
  /\ UNCHANGED <<users, admins, schoolAdmins, students, env, schools, totalStudents, nextId, now, issued, started>>

LoginSchoolAdmins(p) ==
  /\ req[p].pc = "login_sadmins"
  /\ LegacyProbe(p, schoolAdmins, Respond(req[p], 401, "Invalid credentials"),
                 "sadm_upsert")
  /\ UNCHANGED <<users, admins, schoolAdmins, students, env, schools, totalStudents, nextId, now, issued, started>>

\* Materialization: the legacy hash is copied as it is, the role is the one the
\* collection implies.
LegacyUpdate(r, role) == [password |-> r.doc.password, role |-> role]

\* `user = upserted`: were the upsert to return null, `if (!user)` would send
\* the handler on to the school_admins probe.
AdminsUpsert(p) ==
  /\ req[p].pc = "adm_upsert"
  /\ UpsertMatch(p, LegacyUpdate(req[p], "super_admin"), "login_last", TRUE,
                 [req[p] EXCEPT !.pc = "login_sadmins", !.doc = NoDoc])
  /\ UNCHANGED <<admins, schoolAdmins, students, env, schools, totalStudents, nextId, now, issued, started>>

AdminsUpsertInsert(p) ==
  /\ req[p].pc = "adm_upsert_insert"
  /\ UpsertInsert(p, LegacyUpdate(req[p], "super_admin"), "login_last", TRUE)
  /\ UNCHANGED <<admins, schoolAdmins, students, env, schools, totalStudents, now, issued, started>>

SchoolAdminsUpsert(p) ==
  /\ req[p].pc = "sadm_upsert"
  /\ UpsertMatch(p, LegacyUpdate(req[p], "school_admin"), "login_last", TRUE,
                 Respond(req[p], 401, "Invalid credentials"))
  /\ UNCHANGED <<admins, schoolAdmins, students, env, schools, totalStudents, nextId, now, issued, started>>

SchoolAdminsUpsertInsert(p) ==
  /\ req[p].pc = "sadm_upsert_insert"
  /\ UpsertInsert(p, LegacyUpdate(req[p], "school_admin"), "login_last", TRUE)
  /\ UNCHANGED <<admins, schoolAdmins, students, env, schools, totalStudents, now, issued, started>>

\* user.updateLastLogin(): lastLogin = Date.now(), then save().
LoginLastLogin(p) ==
  LET r == req[p]
  IN /\ r.pc = "login_last"
     /\ IF UsersById(r.doc.id) = {}
        THEN /\ req' = [req EXCEPT ![p] = Respond(r, 500, "Server error")]
             /\ UNCHANGED users
        ELSE /\ users' = SetFields(r.doc.id, [lastLogin |-> now] @@ SavedPassword(r.doc))
             /\ req' = [req EXCEPT ![p] = [r EXCEPT !.pc = "login_save",
                                                    !.doc = AfterSave(r.doc)]]
     /\ UNCHANGED <<admins, schoolAdmins, students, env, schools, totalStudents, nextId, now, issued, started>>

\* The hash the hook left running finishes while the handler waits for a store
\* round trip: `this.password = await bcrypt.hash(this.password, salt)`.
RehashLands(p) ==
  LET r == req[p]
  IN /\ r.pc \notin {"idle", "done"}
     /\ r.doc.rehash
     /\ req' = [req EXCEPT ![p] =
          [r EXCEPT !.doc = [r.doc EXCEPT !.password = BcryptHash(@), !.pwMod = TRUE,
                                          !.rehash = FALSE]]]
     /\ UNCHANGED <<users, admins, schoolAdmins, students, env, schools, totalStudents, nextId, now, issued, started>>

\* Tokens are signed, user.refreshToken is set and the document saved, 200.
LoginSave(p) ==
  /\ req[p].pc = "login_save"
  /\ IssueAndSave(p, 200)
  /\ UNCHANGED <<admins, schoolAdmins, students, env, schools, totalStudents, nextId, now, started>>

LoginSteps(p) ==
  \/ EnvUpsert(p)
  \/ EnvUpsertInsert(p)
  \/ EnvSave(p)
  \/ LoginFind(p)
  \/ LoginAdmins(p)
  \/ LoginSchoolAdmins(p)
  \/ AdminsUpsert(p)
  \/ AdminsUpsertInsert(p)
  \/ SchoolAdminsUpsert(p)
  \/ SchoolAdminsUpsertInsert(p)
  \/ LoginLastLogin(p)
  \/ RehashLands(p)
  \/ LoginSave(p)

(* ------------------------------- protect ------------------------------- *)

\* jwt.verify(token, secret): the signature is the server's (the token was
\* issued with that secret) and the token has not expired.
MutNeverExpires(tok, ttl, t) == FALSE
\* TokenExpiredError: the clock has reached exp = iat + expiresIn.
JwtExpired(tok, ttl, t) == t >= tok.iat + ttl

JwtVerify(tok, kind, ttl) == tok \in issued /\ tok.kind = kind /\ ~JwtExpired(tok, ttl, now)

\* What a caller can put in the Authorization header / the request body.
Presentable == issued \cup {NoToken}

\* protect: verify the bearer token, load the user by the token's id; 401
\* without running the handler when either fails. `next` is the pc the
\* handler starts at, with req.user loaded.
ProtectWithin(p, next, ttl) ==
  LET r == req[p]
      found == UsersById(r.tok.id)
      u == TheUser(found)
  IN req' = [req EXCEPT ![p] =
       IF ~JwtVerify(r.tok, "access", ttl)
       THEN Respond(r, 401, "Not authorized")
       ELSE IF found = {} THEN Respond(r, 401, "User not found")
       ELSE [r EXCEPT !.pc = next,
                      !.doc = [NoDoc EXCEPT !.id = u.id, !.email = u.email, !.role = u.role,
                                            !.schoolId = u.schoolId]]]

\* process.env.JWT_EXPIRES_IN || '7d'
Protect(p, next) == ProtectWithin(p, next, JWT_EXPIRES_IN)

(* ------------------------------- profile ------------------------------- *)

StartUpdateProfile(p) ==
  \E tok \in Presentable, e \in Emails :
    /\ Begin(p, [ReqIdle EXCEPT !.op = "profile", !.pc = "prof_protect", !.tok = tok,
                                !.email = e])
    /\ UNCHANGED <<users, admins, schoolAdmins, students, env, schools, totalStudents, nextId, now, issued>>

\* The taken-email lookup is made only when the email differs from req.user's.
ProfileProtect(p) ==
  /\ req[p].pc = "prof_protect"
  /\ LET found == UsersById(req[p].tok.id)
     IN Protect(p, IF found # {} /\ req[p].email = TheUser(found).email
                   THEN "prof_update" ELSE "prof_check")
  /\ UNCHANGED <<users, admins, schoolAdmins, students, env, schools, totalStudents, nextId, now, issued, started>>

ProfileCheck(p) ==
  LET r == req[p]
  IN /\ r.pc = "prof_check"
     /\ req' = [req EXCEPT ![p] =
          IF UsersByEmail(r.email) # {} THEN Respond(r, 400, "Email is already taken")
          ELSE [r EXCEPT !.pc = "prof_update"]]
     /\ UNCHANGED <<users, admins, schoolAdmins, students, env, schools, totalStudents, nextId, now, issued, started>>

\* User.findByIdAndUpdate(req.user.id, { name, email }): the unique index still
\* guards the write.
ProfileUpdate(p) ==
  LET r == req[p]
  IN /\ r.pc = "prof_update"
     /\ IF DuplicateKey(r.email, r.doc.id)
        THEN /\ req' = [req EXCEPT ![p] = Respond(r, 500, "Server error")]
             /\ UNCHANGED users
        ELSE /\ users' = SetFields(r.doc.id, [email |-> r.email])
             /\ req' = [req EXCEPT ![p] = [Respond(r, 200, "ok") EXCEPT !.outId = r.doc.id]]
     /\ UNCHANGED <<admins, schoolAdmins, students, env, schools, totalStudents, nextId, now, issued, started>>

(* ------------------------------- refresh ------------------------------- *)

StartRefresh(p) ==
  \E tok \in Presentable :
    /\ Begin(p, [ReqIdle EXCEPT !.op = "refresh", !.pc = "refresh_find", !.tok = tok])
    /\ UNCHANGED <<users, admins, schoolAdmins, students, env, schools, totalStudents, nextId, now, issued>>

\* jwt.verify with the refresh secret, User.findById(decoded.id), and the
\* comparison of the presented token with the stored one.
RefreshFindWithin(p, ttl) ==
  LET r == req[p]
      found == UsersById(r.tok.id)
      u == TheUser(found)
  IN /\ r.pc = "refresh_find"
     /\ req' = [req EXCEPT ![p] =
          IF ~JwtVerify(r.tok, "refresh", ttl)
          THEN Respond(r, 401, IF r.tok \in issued /\ r.tok.kind = "refresh"
                               THEN "Refresh token expired" ELSE "Invalid refresh token")
          ELSE IF found = {} \/ u.refreshToken # r.tok
          THEN Respond(r, 401, "Invalid refresh token")
          ELSE [r EXCEPT !.pc = "refresh_save",
                         !.doc = [NoDoc EXCEPT !.id = u.id, !.email = u.email]]]
     /\ UNCHANGED <<users, admins, schoolAdmins, students, env, schools, totalStudents, nextId, now, issued, started>>

\* process.env.JWT_REFRESH_EXPIRES_IN || '30d'
RefreshFind(p) == RefreshFindWithin(p, JWT_REFRESH_EXPIRES_IN)

\* New tokens are signed, user.refreshToken is replaced and saved.
RefreshSave(p) ==
  /\ req[p].pc = "refresh_save"
  /\ IssueAndSave(p, 200)
  /\ UNCHANGED <<admins, schoolAdmins, students, env, schools, totalStudents, nextId, now, started>>

(* -------------------------------- logout ------------------------------- *)

StartLogout(p) ==
  \E tok \in Presentable :
    /\ Begin(p, [ReqIdle EXCEPT !.op = "logout", !.pc = "logout_protect", !.tok = tok])
    /\ UNCHANGED <<users, admins, schoolAdmins, students, env, schools, totalStudents, nextId, now, issued>>

LogoutProtect(p) ==
  /\ req[p].pc = "logout_protect"
  /\ Protect(p, "logout_save")
  /\ UNCHANGED <<users, admins, schoolAdmins, students, env, schools, totalStudents, nextId, now, issued, started>>

\* req.user.refreshToken = null; await req.user.save()
LogoutSave(p) ==
  LET r == req[p]
  IN /\ r.pc = "logout_save"
     /\ IF UsersById(r.doc.id) = {}
        THEN /\ req' = [req EXCEPT ![p] = Respond(r, 500, "Server error")]
             /\ UNCHANGED users
        ELSE /\ users' = SetFields(r.doc.id, [refreshToken |-> NoToken])
             /\ req' = [req EXCEPT ![p] = [Respond(r, 200, "ok") EXCEPT !.outId = r.doc.id]]
     /\ UNCHANGED <<admins, schoolAdmins, students, env, schools, totalStudents, nextId, now, issued, started>>

(* ---------------------------------- me --------------------------------- *)

StartMe(p) ==
  \E tok \in Presentable :
    /\ Begin(p, [ReqIdle EXCEPT !.op = "me", !.pc = "me_protect", !.tok = tok])
    /\ UNCHANGED <<users, admins, schoolAdmins, students, env, schools, totalStudents, nextId, now, issued>>

MeProtect(p) ==
  /\ req[p].pc = "me_protect"
  /\ Protect(p, "me_run")
  /\ UNCHANGED <<users, admins, schoolAdmins, students, env, schools, totalStudents, nextId, now, issued, started>>

\* protect with process.env.JWT_EXPIRES_IN set to `ttl` seconds.
MeProtectWithin(p, ttl) ==
  /\ req[p].pc = "me_protect"
  /\ ProtectWithin(p, "me_run", ttl)
  /\ UNCHANGED <<users, admins, schoolAdmins, students, env, schools, totalStudents, nextId, now, issued, started>>

\* The handler: User.findById(req.user.id), answered 200 with the document.
MeRun(p) ==
  LET r == req[p]
      found == UsersById(r.doc.id)
  IN /\ r.pc = "me_run"
     /\ req' = [req EXCEPT ![p] =
          [Respond(r, 200, "ok") EXCEPT
             !.outId = IF found = {} THEN 0 ELSE r.doc.id,
             !.role = IF found = {} THEN "none" ELSE TheUser(found).role,
             !.schoolId = IF found = {} THEN 0 ELSE TheUser(found).schoolId]]
     /\ UNCHANGED <<users, admins, schoolAdmins, students, env, schools, totalStudents, nextId, now, issued, started>>

(* ------------------------------ onboarding ----------------------------- *)

StartOnboard(p) ==
  \E tok \in Presentable :
    /\ Begin(p, [ReqIdle EXCEPT !.op = "onboarding", !.pc = "onb_protect", !.tok = tok])
    /\ UNCHANGED <<users, admins, schoolAdmins, students, env, schools, totalStudents, nextId, now, issued>>

OnboardProtect(p) ==
  /\ req[p].pc = "onb_protect"
  /\ Protect(p, "onb_school")
  /\ UNCHANGED <<users, admins, schoolAdmins, students, env, schools, totalStudents, nextId, now, issued, started>>

\* School.create({ name, board, adminContact, status: 'active' })
OnboardSchool(p) ==
  LET r == req[p]
      sid == Cardinality(schools) + 1
  IN /\ r.pc = "onb_school"
     /\ schools' = schools \cup {sid}
     /\ totalStudents' = (sid :> 0) @@ totalStudents
     /\ req' = [req EXCEPT ![p] = [r EXCEPT !.pc = "onb_save", !.schoolId = sid]]
     /\ UNCHANGED <<users, admins, schoolAdmins, students, env, nextId, now, issued, started>>

MutOnboardSetRole(r) == [schoolId |-> r.schoolId, role |-> "super_admin"]
\* user.schoolId = school._id: the path the save writes.
OnboardSet(r) == [schoolId |-> r.schoolId]

\* User.findById(req.user.id); user.schoolId = school._id; user.save()
OnboardSave(p) ==
  LET r == req[p]
  IN /\ r.pc = "onb_save"
     /\ IF UsersById(r.doc.id) = {}
        THEN /\ req' = [req EXCEPT ![p] = Respond(r, 500, "Server error")]
             /\ UNCHANGED users
        ELSE /\ users' = SetFields(r.doc.id, OnboardSet(r))
             /\ req' = [req EXCEPT ![p] = [Respond(r, 200, "ok") EXCEPT !.outId = r.doc.id]]
     /\ UNCHANGED <<admins, schoolAdmins, students, env, schools, totalStudents, nextId, now, issued, started>>

(* ---------------------------- change password -------------------------- *)

StartChangePassword(p, pws) ==
  \E tok \in Presentable, cur \in pws, new \in pws :
    /\ Begin(p, [ReqIdle EXCEPT !.op = "change-password", !.pc = "cp_protect",
                                !.tok = tok, !.pw = cur, !.target = new])
    /\ UNCHANGED <<users, admins, schoolAdmins, students, env, schools, totalStudents, nextId, now, issued>>

ChangePasswordProtect(p) ==
  /\ req[p].pc = "cp_protect"
  /\ Protect(p, "cp_find")
  /\ UNCHANGED <<users, admins, schoolAdmins, students, env, schools, totalStudents, nextId, now, issued, started>>

\* User.findById(req.user.id).select('+password'), then matchPassword(current).
ChangePasswordFind(p) ==
  LET r == req[p]
      found == UsersById(r.doc.id)
      u == TheUser(found)
  IN /\ r.pc = "cp_find"
     /\ req' = [req EXCEPT ![p] =
          IF found = {} THEN Respond(r, 500, "Server error")
          ELSE IF ~BcryptCompare(r.pw, u.password)
          THEN Respond(r, 400, "Current password is incorrect")
          ELSE [r EXCEPT !.pc = "cp_save",
                         !.doc = [r.doc EXCEPT !.password = Plain(r.target), !.pwMod = TRUE]]]
     /\ UNCHANGED <<users, admins, schoolAdmins, students, env, schools, totalStudents, nextId, now, issued, started>>

\* user.password = newPassword; user.save(): the hook hashes the new password.
ChangePasswordSave(p) ==
  LET r == req[p]
  IN /\ r.pc = "cp_save"
     /\ IF UsersById(r.doc.id) = {}
        THEN /\ req' = [req EXCEPT ![p] = Respond(r, 500, "Server error")]
             /\ UNCHANGED users
        ELSE /\ users' = SetFields(r.doc.id, SavedPassword(r.doc))
             /\ req' = [req EXCEPT ![p] = [Respond(r, 200, "ok") EXCEPT !.outId = r.doc.id]]
     /\ UNCHANGED <<admins, schoolAdmins, students, env, schools, totalStudents, nextId, now, issued, started>>

(* ------------------------- authorization policy ------------------------ *)

\* The middlewares of roleAuth.js on req.user: 0 stands for next(), any other
\* value is the status the middleware answers with.
\* `if (!req.user)`: no protect ran before the middleware, or it loaded nobody.
NoUser(user) == user = NoDoc

requireSuperAdmin(user) ==
  IF NoUser(user) THEN 401
  ELSE IF user.role # "super_admin" THEN 403 ELSE 0

MutWrongTenantOff(user, schoolId) == FALSE
\* `schoolId && schoolId !== req.user.schoolId.toString()`
WrongTenant(user, schoolId) == schoolId # 0 /\ schoolId # user.schoolId

canAccessSchool(user, schoolId) ==
  IF NoUser(user) THEN 401
  ELSE IF user.role = "super_admin" THEN 0
  ELSE IF user.role = "school_admin"
  THEN IF user.schoolId = 0 THEN 403
       ELSE IF WrongTenant(user, schoolId) THEN 403
       ELSE 0
  ELSE 403

canPerformCRUD(user) ==
  IF NoUser(user) THEN 401
  ELSE IF user.role # "super_admin" THEN 403 ELSE 0

MutCanViewDataAllowAll(user) == 0
canViewData(user) ==
  IF NoUser(user) THEN 401
  ELSE IF user.role \in {"super_admin", "school_admin"} THEN 0 ELSE 403

\* The middlewares as functions of req.user and the request's schoolId. A
\* role outside the schema's enum reaches req.user through documents written
\* by the raw driver (the admin db explorer's $set, the legacy collections).
Middlewares == {"canViewData", "canAccessSchool", "canPerformCRUD"}
AnyRoles == Roles \cup {"teacher"}
PolicyUsers ==
  {NoDoc} \cup {[NoDoc EXCEPT !.id = 1, !.role = role, !.schoolId = sid] :
                  role \in AnyRoles, sid \in 0..2}

Decide(mw, user, schoolId) ==
  IF mw = "canViewData" THEN canViewData(user)
  ELSE IF mw = "canAccessSchool" THEN canAccessSchool(user, schoolId)
  ELSE canPerformCRUD(user)

\* A request reaches the middleware with req.user and a schoolId.
StartPolicy(p) ==
  \E mw \in Middlewares, user \in PolicyUsers, sid \in 0..2 :
    /\ Begin(p, [ReqIdle EXCEPT !.op = mw, !.pc = "policy", !.doc = user, !.schoolId = sid])
    /\ UNCHANGED <<users, admins, schoolAdmins, students, env, schools, totalStudents, nextId, now, issued>>

\* The middleware decides: next() (0) or the status it answers with.
RunPolicy(p) ==
  LET r == req[p]
  IN /\ r.pc = "policy"
     /\ req' = [req EXCEPT ![p] =
          [r EXCEPT !.pc = "done", !.status = Decide(r.op, r.doc, r.schoolId)]]
     /\ UNCHANGED <<users, admins, schoolAdmins, students, env, schools, totalStudents, nextId, now, issued, started>>

\* Student.find(query): filter 0 stands for a query without schoolId.
StudentFind(filter) == {s \in students : filter = 0 \/ s.schoolId = filter}

RespondRecords(r, filter) ==
  [Respond(r, 200, "ok") EXCEPT !.filter = filter, !.out = StudentFind(filter)]

\* The schoolId a request can carry; 0 stands for none.
SchoolIds == schools \cup {0}

StartRead(p, op, pc, toks) ==
  \E tok \in toks, sid \in SchoolIds :
    /\ Begin(p, [ReqIdle EXCEPT !.op = op, !.pc = pc, !.tok = tok, !.schoolId = sid])
    /\ UNCHANGED <<users, admins, schoolAdmins, students, env, schools, totalStudents, nextId, now, issued>>

ReadProtect(p, pc, next) ==
  /\ req[p].pc = pc
  /\ Protect(p, next)
  /\ UNCHANGED <<users, admins, schoolAdmins, students, env, schools, totalStudents, nextId, now, issued, started>>

\* GET /api/students: protect, canViewData, canAccessSchool, then the handler,
\* which sets query.schoolId itself for a school_admin.
StartStudentsList(p, toks) == StartRead(p, "students_list", "list_protect", toks)
StudentsListProtect(p) == ReadProtect(p, "list_protect", "list_run")
StudentsListQuery(user, schoolId) ==
  IF user.role = "school_admin" THEN user.schoolId ELSE schoolId
StudentsListRun(p) ==
  LET r == req[p]
  IN /\ r.pc = "list_run"
     /\ req' = [req EXCEPT ![p] =
          IF canViewData(r.doc) # 0 THEN Respond(r, canViewData(r.doc), "Access denied")
          ELSE IF canAccessSchool(r.doc, r.schoolId) # 0
          THEN Respond(r, canAccessSchool(r.doc, r.schoolId), "Access denied")
          ELSE RespondRecords(r, StudentsListQuery(r.doc, r.schoolId))]
     /\ UNCHANGED <<users, admins, schoolAdmins, students, env, schools, totalStudents, nextId, now, issued, started>>

\* GET /api/students/search/advanced: the same middlewares, but the handler
\* filters by the request's schoolId only.
StartStudentsSearch(p, toks) == StartRead(p, "students_search", "search_protect", toks)
StudentsSearchProtect(p) == ReadProtect(p, "search_protect", "search_run")
StudentsSearchRun(p) ==
  LET r == req[p]
  IN /\ r.pc = "search_run"
     /\ req' = [req EXCEPT ![p] =
          IF canViewData(r.doc) # 0 THEN Respond(r, canViewData(r.doc), "Access denied")
          ELSE IF canAccessSchool(r.doc, r.schoolId) # 0
          THEN Respond(r, canAccessSchool(r.doc, r.schoolId), "Access denied")
          ELSE RespondRecords(r, r.schoolId)]
     /\ UNCHANGED <<users, admins, schoolAdmins, students, env, schools, totalStudents, nextId, now, issued, started>>

\* `req.params.schoolId || req.body.schoolId || req.query.schoolId`: the
\* schoolId canAccessSchool looks at (0 stands for an absent one).
RequestedSchoolId(params, body, query) ==
  IF params # 0 THEN params ELSE IF body # 0 THEN body ELSE query

\* GET /api/students/stats/overview: protect, canViewData, canAccessSchool,
\* then the handler, which filters by req.query.schoolId, else by the
\* school_admin's own school. The route has no :schoolId parameter; the JSON
\* body of the request is parsed by express.json() whatever the method.
StartStatsOverview(p, toks) ==
  \E tok \in toks, body \in SchoolIds, query \in SchoolIds :
    /\ Begin(p, [ReqIdle EXCEPT !.op = "stats_overview", !.pc = "stats_protect", !.tok = tok,
                                !.bodySchoolId = body, !.schoolId = query])
    /\ UNCHANGED <<users, admins, schoolAdmins, students, env, schools, totalStudents, nextId, now, issued>>
StatsOverviewQuery(user, query) ==
  IF query # 0 THEN query
  ELSE IF user.role = "school_admin" /\ user.schoolId # 0 THEN user.schoolId
  ELSE 0
StatsOverviewRun(p) ==
  LET r == req[p]
      asked == RequestedSchoolId(0, r.bodySchoolId, r.schoolId)
  IN /\ r.pc = "stats_run"
     /\ req' = [req EXCEPT ![p] =
          IF canViewData(r.doc) # 0 THEN Respond(r, canViewData(r.doc), "Access denied")
          ELSE IF canAccessSchool(r.doc, asked) # 0
          THEN Respond(r, canAccessSchool(r.doc, asked), "Access denied")
          ELSE RespondRecords(r, StatsOverviewQuery(r.doc, r.schoolId))]
     /\ UNCHANGED <<users, admins, schoolAdmins, students, env, schools, totalStudents, nextId, now, issued, started>>

\* GET /api/schools: protect, canViewData, then the handler, which restricts
\* the query to the caller's school when the caller is a school_admin with a
\* schoolId, and otherwise leaves the query open.
StartSchoolsList(p, toks) ==
  \E tok \in toks :
    /\ Begin(p, [ReqIdle EXCEPT !.op = "schools_list", !.pc = "schools_protect", !.tok = tok])
    /\ UNCHANGED <<users, admins, schoolAdmins, students, env, schools, totalStudents, nextId, now, issued>>
SchoolsListQuery(user) ==
  IF user.role = "school_admin" /\ user.schoolId # 0 THEN user.schoolId ELSE 0
\* School.find(query): filter 0 stands for a query without _id.
SchoolFind(filter) == {[id |-> s] : s \in {x \in schools : filter = 0 \/ x = filter}}
SchoolsListRun(p) ==
  LET r == req[p]
  IN /\ r.pc = "schools_run"
     /\ req' = [req EXCEPT ![p] =
          IF canViewData(r.doc) # 0 THEN Respond(r, canViewData(r.doc), "Access denied")
          ELSE [Respond(r, 200, "ok") EXCEPT !.filter = SchoolsListQuery(r.doc),
                                             !.out = SchoolFind(SchoolsListQuery(r.doc)),
                                             !.outId = r.doc.id]]
     /\ UNCHANGED <<users, admins, schoolAdmins, students, env, schools, totalStudents, nextId, now, issued, started>>

\* GET /api/analytics/dashboard: protect only; the statistics answered are
\* aggregated over the students (and schools) the request's schoolId selects.
\* `out` holds the records the answer is computed from.
StartDashboard(p, toks) == StartRead(p, "dashboard", "dash_protect", toks)
DashboardProtect(p) == ReadProtect(p, "dash_protect", "dash_run")
DashboardRun(p) ==
  LET r == req[p]
  IN /\ r.pc = "dash_run"
     /\ req' = [req EXCEPT ![p] = RespondRecords(r, r.schoolId)]
     /\ UNCHANGED <<users, admins, schoolAdmins, students, env, schools, totalStudents, nextId, now, issued, started>>

\* School.findByIdAndUpdate(schoolId, { $inc: { totalStudents: d } }): no
\* validators run, and a missing school matches nothing.
IncTotal(schoolId, d) ==
  IF schoolId \in DOMAIN totalStudents
  THEN [totalStudents EXCEPT ![schoolId] = @ + d]
  ELSE totalStudents

\* DELETE /api/students/:id: protect, canPerformCRUD, Student.findById, the
\* $inc of -1 on the student's school, then Student.findByIdAndDelete.
StartStudentDelete(p, toks) ==
  \E tok \in toks, id \in {s.id : s \in students} :
    /\ Begin(p, [ReqIdle EXCEPT !.op = "student_delete", !.pc = "del_protect",
                                !.tok = tok, !.outId = id])
    /\ UNCHANGED <<users, admins, schoolAdmins, students, env, schools, totalStudents, nextId, now, issued>>
StudentDeleteProtect(p) == ReadProtect(p, "del_protect", "del_find")
StudentDeleteFind(p) ==
  LET r == req[p]
  IN /\ r.pc = "del_find"
     /\ req' = [req EXCEPT ![p] =
          IF canPerformCRUD(r.doc) # 0 THEN Respond(r, canPerformCRUD(r.doc), "Access denied")
          ELSE IF {s \in students : s.id = r.outId} = {} THEN Respond(r, 404, "Student not found")
          ELSE [r EXCEPT !.pc = "del_count",
                         !.schoolId = TheUser({s \in students : s.id = r.outId}).schoolId]]
     /\ UNCHANGED <<users, admins, schoolAdmins, students, env, schools, totalStudents, nextId, now, issued, started>>
StudentDeleteCount(p) ==
  LET r == req[p]
  IN /\ r.pc = "del_count"
     /\ totalStudents' = IncTotal(r.schoolId, -1)
     /\ req' = [req EXCEPT ![p] = [r EXCEPT !.pc = "del_delete"]]
     /\ UNCHANGED <<users, admins, schoolAdmins, students, env, schools, nextId, now, issued, started>>
StudentDeleteRun(p) ==
  LET r == req[p]
  IN /\ r.pc = "del_delete"
     /\ students' = {s \in students : s.id # r.outId}
     /\ req' = [req EXCEPT ![p] = Respond(r, 200, "Student deleted successfully")]
     /\ UNCHANGED <<users, admins, schoolAdmins, env, schools, totalStudents, nextId, now, issued, started>>

\* POST /api/students: protect, canPerformCRUD, the roll-number check (the
\* requests carry roll numbers not yet in use), School.findById, student.save(),
\* the $inc of +1 on the school, 201. body.schoolId is optional (0: absent).
StartStudentCreate(p, toks) ==
  \E tok \in toks, sid \in SchoolIds :
    /\ Begin(p, [ReqIdle EXCEPT !.op = "student_create", !.pc = "new_protect",
                                !.tok = tok, !.bodySchoolId = sid])
    /\ UNCHANGED <<users, admins, schoolAdmins, students, env, schools, totalStudents, nextId, now, issued>>
StudentCreateCheck(p) ==
  LET r == req[p]
      sid == IF r.bodySchoolId # 0 THEN r.bodySchoolId ELSE r.doc.schoolId
  IN /\ r.pc = "new_check"
     /\ req' = [req EXCEPT ![p] =
          IF canPerformCRUD(r.doc) # 0 THEN Respond(r, canPerformCRUD(r.doc), "Access denied")
          ELSE IF sid \notin schools THEN Respond(r, 400, "School not found")
          ELSE [r EXCEPT !.pc = "new_save", !.schoolId = sid]]
     /\ UNCHANGED <<users, admins, schoolAdmins, students, env, schools, totalStudents, nextId, now, issued, started>>
StudentCreateSave(p) ==
  LET r == req[p]
  IN /\ r.pc = "new_save"
     /\ students' = students \cup {[id |-> nextId, schoolId |-> r.schoolId]}
     /\ nextId' = nextId + 1
     /\ req' = [req EXCEPT ![p] = [r EXCEPT !.pc = "new_count", !.outId = nextId]]
     /\ UNCHANGED <<users, admins, schoolAdmins, env, schools, totalStudents, now, issued, started>>
StudentCreateCount(p) ==
  LET r == req[p]
  IN /\ r.pc = "new_count"
     /\ totalStudents' = IncTotal(r.schoolId, 1)
     /\ req' = [req EXCEPT ![p] = Respond(r, 201, "ok")]
     /\ UNCHANGED <<users, admins, schoolAdmins, students, env, schools, nextId, now, issued, started>>

\* PUT /api/students/:id: protect, canPerformCRUD,
\* Student.findByIdAndUpdate(id, req.body); the body may name a schoolId.
StartStudentUpdate(p, toks) ==
  \E tok \in toks, id \in {s.id : s \in students}, sid \in SchoolIds :
    /\ Begin(p, [ReqIdle EXCEPT !.op = "student_update", !.pc = "upd_protect",
                                !.tok = tok, !.outId = id, !.bodySchoolId = sid])
    /\ UNCHANGED <<users, admins, schoolAdmins, students, env, schools, totalStudents, nextId, now, issued>>
\* The documents after update(filter ids, body): a schoolId in the body is set.
StudentsSet(ids, schoolId) ==
  {IF s.id \in ids /\ schoolId # 0 THEN [s EXCEPT !.schoolId = schoolId] ELSE s :
     s \in students}
StudentUpdateRun(p) ==
  LET r == req[p]
  IN /\ r.pc = "upd_run"
     /\ IF canPerformCRUD(r.doc) # 0
        THEN /\ req' = [req EXCEPT ![p] = Respond(r, canPerformCRUD(r.doc), "Access denied")]
             /\ UNCHANGED students
        ELSE IF {s \in students : s.id = r.outId} = {}
        THEN /\ req' = [req EXCEPT ![p] = Respond(r, 404, "Student not found")]
             /\ UNCHANGED students
        ELSE /\ students' = StudentsSet({r.outId}, r.bodySchoolId)
             /\ req' = [req EXCEPT ![p] = Respond(r, 200, "ok")]
     /\ UNCHANGED <<users, admins, schoolAdmins, env, schools, totalStudents, nextId, now, issued, started>>

\* POST /api/students/bulk: protect, canPerformCRUD, then by operation:
\* update: Student.updateMany({ _id: { $in: studentIds } }, data);
\* delete: Student.find, one $inc per school of the students found, in the
\* order the schools first appear, then Student.deleteMany.
StartStudentBulk(p, toks) ==
  \E tok \in toks, op \in {"bulk_update", "bulk_delete"},
     ids \in SUBSET {s.id : s \in students}, sid \in SchoolIds :
    /\ ids # {}
    /\ op = "bulk_delete" => sid = 0
    /\ Begin(p, [ReqIdle EXCEPT !.op = op, !.pc = "bulk_protect", !.tok = tok,
                                !.ids = ids, !.bodySchoolId = sid])
    /\ UNCHANGED <<users, admins, schoolAdmins, students, env, schools, totalStudents, nextId, now, issued>>
StudentBulkRun(p) ==
  LET r == req[p]
      found == {s \in students : s.id \in r.ids}
  IN /\ r.pc = "bulk_run"
     /\ IF canPerformCRUD(r.doc) # 0
        THEN /\ req' = [req EXCEPT ![p] = Respond(r, canPerformCRUD(r.doc), "Access denied")]
             /\ UNCHANGED students
        ELSE IF r.op = "bulk_update"
        THEN /\ students' = StudentsSet(r.ids, r.bodySchoolId)
             /\ req' = [req EXCEPT ![p] = Respond(r, 200, "ok")]
        ELSE /\ req' = [req EXCEPT ![p] =
                   [r EXCEPT !.pc = IF found = {} THEN "bulk_delete" ELSE "bulk_count",
                             !.out = found]]
             /\ UNCHANGED students
     /\ UNCHANGED <<users, admins, schoolAdmins, env, schools, totalStudents, nextId, now, issued, started>>
\* One turn of `for (const [schoolId, change] of Object.entries(schoolUpdates))`.
StudentBulkCount(p) ==
  LET r == req[p]
      first == CHOOSE s \in r.out : \A t \in r.out : s.id <= t.id
      mine == {s \in r.out : s.schoolId = first.schoolId}
      rest == r.out \ mine
  IN /\ r.pc = "bulk_count"
     /\ totalStudents' = IncTotal(first.schoolId, 0 - Cardinality(mine))
     /\ req' = [req EXCEPT ![p] =
          [r EXCEPT !.pc = IF rest = {} THEN "bulk_delete" ELSE "bulk_count", !.out = rest]]
     /\ UNCHANGED <<users, admins, schoolAdmins, students, env, schools, nextId, now, issued, started>>
StudentBulkDelete(p) ==
  LET r == req[p]
  IN /\ r.pc = "bulk_delete"
     /\ students' = {s \in students : s.id \notin r.ids}
     /\ req' = [req EXCEPT ![p] = Respond(r, 200, "ok")]
     /\ UNCHANGED <<users, admins, schoolAdmins, env, schools, totalStudents, nextId, now, issued, started>>

(* --------------------------- admin db explorer ------------------------- *)

\* PUT /api/admin/db/users/:id with body { isActive: false } and
\* DELETE /api/admin/db/users/:id, both behind protect and requireSuperAdmin.
StartAdminDb(p) ==
  \E tok \in Presentable, id \in 1..(nextId - 1), op \in {"db_update", "db_delete"} :
    /\ Begin(p, [ReqIdle EXCEPT !.op = op, !.pc = "db_protect", !.tok = tok, !.outId = id])
    /\ UNCHANGED <<users, admins, schoolAdmins, students, env, schools, totalStudents, nextId, now, issued>>

AdminDbProtect(p) ==
  /\ req[p].pc = "db_protect"
  /\ Protect(p, req[p].op)
  /\ UNCHANGED <<users, admins, schoolAdmins, students, env, schools, totalStudents, nextId, now, issued, started>>

\* requireSuperAdmin, then col.findOneAndUpdate({ _id }, { $set: req.body })
AdminDbUpdate(p) ==
  LET r == req[p]
  IN /\ r.pc = "db_update"
     /\ IF requireSuperAdmin(r.doc) # 0
        THEN /\ req' = [req EXCEPT ![p] = Respond(r, requireSuperAdmin(r.doc), "Access denied")]
             /\ UNCHANGED users
        ELSE /\ users' = SetFields(r.outId, [isActive |-> FALSE])
             /\ req' = [req EXCEPT ![p] =
                  Respond(r, IF UsersById(r.outId) = {} THEN 404 ELSE 200, "ok")]
     /\ UNCHANGED <<admins, schoolAdmins, students, env, schools, totalStudents, nextId, now, issued, started>>

\* requireSuperAdmin, then col.deleteOne({ _id })
AdminDbDelete(p) ==
  LET r == req[p]
  IN /\ r.pc = "db_delete"
     /\ IF requireSuperAdmin(r.doc) # 0
        THEN /\ req' = [req EXCEPT ![p] = Respond(r, requireSuperAdmin(r.doc), "Access denied")]
             /\ UNCHANGED users
        ELSE /\ users' = users \ UsersById(r.outId)
             /\ req' = [req EXCEPT ![p] =
                  Respond(r, IF UsersById(r.outId) = {} THEN 404 ELSE 200, "ok")]
     /\ UNCHANGED <<admins, schoolAdmins, students, env, schools, totalStudents, nextId, now, issued, started>>

\* GET /api/admin/db/:collection: protect, requireSuperAdmin, then the raw
\* driver's col.find(filter).toArray(), answered as `data` without any
\* schema selection or toJSON transform.
StartAdminDbList(p) ==
  \E tok \in Presentable, coll \in {"users", "admins", "school_admins"} :
    /\ Begin(p, [ReqIdle EXCEPT !.op = "db_list", !.pc = "dbl_protect", !.tok = tok,
                                !.target = coll])
    /\ UNCHANGED <<users, admins, schoolAdmins, students, env, schools, totalStudents, nextId, now, issued>>

AdminDbListProtect(p) ==
  /\ req[p].pc = "dbl_protect"
  /\ Protect(p, "db_list")
  /\ UNCHANGED <<users, admins, schoolAdmins, students, env, schools, totalStudents, nextId, now, issued, started>>

Collection(name) ==
  IF name = "users" THEN users ELSE IF name = "admins" THEN admins ELSE schoolAdmins

AdminDbList(p) ==
  LET r == req[p]
  IN /\ r.pc = "db_list"
     /\ req' = [req EXCEPT ![p] =
          IF requireSuperAdmin(r.doc) # 0
          THEN Respond(r, requireSuperAdmin(r.doc), "Access denied")
          ELSE [Respond(r, 200, "ok") EXCEPT !.out = Collection(r.target)]]
     /\ UNCHANGED <<users, admins, schoolAdmins, students, env, schools, totalStudents, nextId, now, issued, started>>

(* --------------------------------- clock ------------------------------- *)

Tick ==
  /\ now < MaxTime
  /\ now' = now + 1
  /\ UNCHANGED <<users, admins, schoolAdmins, students, env, schools, totalStudents, nextId, issued, started, req>>

(* ------------------------------ initial state -------------------------- *)

\* The legacy collections hold identities of the company database; the users
\* collection starts empty.
InitLegacy ==
  /\ admins = {LegacyRecord("a@x.com", BcryptHash(Plain("secret1")), FALSE)}
  /\ schoolAdmins = {LegacyRecord("b@y.com", BcryptHash(Plain("secret1")), FALSE)}

InitRequests ==
  /\ now = 0
  /\ started = 0
  /\ req = [p \in Procs |-> ReqIdle]

\* An empty database, and the flag as the sample .env sets it.
InitCommon ==
  /\ InitRequests
  /\ users = {}
  /\ schools = {}
  /\ totalStudents = <<>>
  /\ students = {}
  /\ env = [ENABLE_CRUD_FOR_SCHOOL_ADMIN |-> FALSE]
  /\ nextId = 1
  /\ issued = {}

Init == InitCommon /\ InitLegacy

Next ==
  \E p \in Procs :
    \/ StartRegister(p, {"secret1"}, {"school_admin"}, Targets)
    \/ RegisterCheck(p)
    \/ RegisterCreate(p)
    \/ RegisterAdmin(p)
    \/ RegisterSave(p)
    \/ StartLogin(p, Emails, Passwords)
    \/ LoginSteps(p)
    \/ StartUpdateProfile(p)
    \/ ProfileProtect(p)
    \/ ProfileCheck(p)
    \/ ProfileUpdate(p)

Spec == Init /\ [][Next]_vars

(* Logins alone, over legacy stores that hold one email twice with different
   passwords and a soft-deleted record. *)

InitLogin ==
  /\ InitCommon
  /\ admins = {LegacyRecord("b@y.com", BcryptHash(Plain("secret1")), FALSE),
               LegacyRecord("a@x.com", BcryptHash(Plain("secret2")), TRUE)}
  /\ schoolAdmins = {LegacyRecord("b@y.com", BcryptHash(Plain("secret2")), FALSE),
                     LegacyRecord("a@x.com", BcryptHash(Plain("secret1")), FALSE)}

NextLogin == \E p \in Procs : StartLogin(p, Emails, Passwords) \/ LoginSteps(p)

\* The same, with logins for an email that no store holds as well.
UnknownEmail == "c@z.com"
NextEnum ==
  \E p \in Procs : StartLogin(p, Emails \cup {UnknownEmail}, Passwords) \/ LoginSteps(p)
SpecEnum == InitLogin /\ [][NextEnum]_vars

\* Logins through every path together with refreshes.
NextAuth ==
  \E p \in Procs :
    \/ StartLogin(p, Emails \cup {UnknownEmail}, Passwords)
    \/ LoginSteps(p)
    \/ StartRefresh(p)
    \/ RefreshFind(p)
    \/ RefreshSave(p)
SpecAuth == InitLogin /\ [][NextAuth]_vars

SpecLogin == InitLogin /\ [][NextLogin]_vars

(* The policy over a database with two tenants: a super admin, the school admin of
   school 1, a school admin not yet onboarded, and one student per school. *)

PolicyTokens == {AccessTokenSign(id, 0) : id \in 1..3}

InitPolicy ==
  /\ InitRequests
  /\ users = {[NewUser(1, "a@x.com", BcryptHash(Plain("secret1")), "super_admin", 0)
                 EXCEPT !.refreshToken = RefreshTokenSign(1, 0)],
              [NewUser(2, "b@y.com", BcryptHash(Plain("secret1")), "school_admin", 0)
                 EXCEPT !.refreshToken = RefreshTokenSign(2, 0), !.schoolId = 1],
              [NewUser(3, "c@z.com", BcryptHash(Plain("secret1")), "school_admin", 0)
                 EXCEPT !.refreshToken = RefreshTokenSign(3, 0)]}
  /\ admins = {}
  /\ schoolAdmins = {}
  /\ schools = {1, 2}
  /\ totalStudents = [s \in {1, 2} |-> 1]
  /\ students = {[id |-> 1, schoolId |-> 1], [id |-> 2, schoolId |-> 2]}
  /\ env \in [ENABLE_CRUD_FOR_SCHOOL_ADMIN : BOOLEAN]
  /\ nextId = 4
  /\ issued = PolicyTokens

NextPolicy ==
  \E p \in Procs :
    \/ StartStudentsList(p, PolicyTokens)
    \/ StudentsListProtect(p)
    \/ StudentsListRun(p)
    \/ StartStudentsSearch(p, PolicyTokens)
    \/ StudentsSearchProtect(p)
    \/ StudentsSearchRun(p)
    \/ StartDashboard(p, PolicyTokens)
    \/ DashboardProtect(p)
    \/ DashboardRun(p)
    \/ StartStudentDelete(p, PolicyTokens)
    \/ StudentDeleteProtect(p)
    \/ StudentDeleteFind(p)
    \/ StudentDeleteCount(p)
    \/ StudentDeleteRun(p)

SpecPolicy == InitPolicy /\ [][NextPolicy]_vars

\* The statistics overview over the same database.
NextStats ==
  \E p \in Procs :
    \/ StartStatsOverview(p, PolicyTokens)
    \/ ReadProtect(p, "stats_protect", "stats_run")
    \/ StatsOverviewRun(p)

SpecStats == InitPolicy /\ [][NextStats]_vars

\* Student records and the schools' counters: the mutating student routes,
\* called by the super admin over the same database.
CrudTokens == {AccessTokenSign(1, 0)}

NextStudents ==
  \E p \in Procs :
    \/ StartStudentCreate(p, CrudTokens)
    \/ ReadProtect(p, "new_protect", "new_check")
    \/ StudentCreateCheck(p)
    \/ StudentCreateSave(p)
    \/ StudentCreateCount(p)
    \/ StartStudentUpdate(p, CrudTokens)
    \/ ReadProtect(p, "upd_protect", "upd_run")
    \/ StudentUpdateRun(p)
    \/ StartStudentDelete(p, CrudTokens)
    \/ StudentDeleteProtect(p)
    \/ StudentDeleteFind(p)
    \/ StudentDeleteCount(p)
    \/ StudentDeleteRun(p)
    \/ StartStudentBulk(p, CrudTokens)
    \/ ReadProtect(p, "bulk_protect", "bulk_run")
    \/ StudentBulkRun(p)
    \/ StudentBulkCount(p)
    \/ StudentBulkDelete(p)

SpecStudents == InitPolicy /\ [][NextStudents]_vars

\* The school listing over the same database.
NextSchools ==
  \E p \in Procs :
    \/ StartSchoolsList(p, PolicyTokens)
    \/ ReadProtect(p, "schools_protect", "schools_run")
    \/ SchoolsListRun(p)

SpecSchools == InitPolicy /\ [][NextSchools]_vars

InitSession ==
  /\ InitCommon
  /\ admins = {}
  /\ schoolAdmins = {}

(* The request gate: identities are registered, deactivated or removed through
   the admin db explorer, and a protected handler is called. *)

NextGate ==
  \E p \in Procs :
    \/ StartRegister(p, {"secret1"}, Roles, {"users"})
    \/ RegisterCheck(p)
    \/ RegisterCreate(p)
    \/ RegisterSave(p)
    \/ StartAdminDb(p)
    \/ AdminDbProtect(p)
    \/ AdminDbUpdate(p)
    \/ AdminDbDelete(p)
    \/ StartMe(p)
    \/ MeProtect(p)
    \/ MeRun(p)

SpecGate == InitSession /\ [][NextGate]_vars

(* Administration: identities are registered, deactivated, removed or listed
   through the admin db explorer, and log in, refresh and call `me`. *)

NextAdmin ==
  \E p \in Procs :
    \/ StartRegister(p, {"secret1"}, Roles, {"users"})
    \/ RegisterCheck(p)
    \/ RegisterCreate(p)
    \/ RegisterSave(p)
    \/ StartAdminDb(p)
    \/ AdminDbProtect(p)
    \/ AdminDbUpdate(p)
    \/ AdminDbDelete(p)
    \/ StartAdminDbList(p)
    \/ AdminDbListProtect(p)
    \/ AdminDbList(p)
    \/ StartLogin(p, Emails, {"secret1"})
    \/ LoginFind(p)
    \/ LoginAdmins(p)
    \/ LoginSchoolAdmins(p)
    \/ LoginLastLogin(p)
    \/ RehashLands(p)
    \/ LoginSave(p)
    \/ StartRefresh(p)
    \/ RefreshFind(p)
    \/ RefreshSave(p)
    \/ StartMe(p)
    \/ MeProtect(p)
    \/ MeRun(p)

SpecAdmin == InitSession /\ [][NextAdmin]_vars

(* Onboarding: identities of every role register, onboard (any number of
   times) and call `me`. *)

NextOnboard ==
  \E p \in Procs :
    \/ StartRegister(p, {"secret1"}, Roles, {"users"})
    \/ RegisterCheck(p)
    \/ RegisterCreate(p)
    \/ RegisterSave(p)
    \/ StartOnboard(p)
    \/ OnboardProtect(p)
    \/ OnboardSchool(p)
    \/ OnboardSave(p)
    \/ StartMe(p)
    \/ MeProtect(p)
    \/ MeRun(p)

SpecOnboard == InitSession /\ [][NextOnboard]_vars

(* Registration of one address typed in different letter cases. *)

NextCase ==
  \E p \in Procs :
    \/ StartRegisterEmail(p, CaseEmails, {"secret1"}, Roles, {"users"})
    \/ RegisterCheck(p)
    \/ RegisterCreate(p)
    \/ RegisterSave(p)

SpecCase == InitSession /\ [][NextCase]_vars

(* The policy middlewares applied to every req.user and schoolId. *)

NextMiddleware == \E p \in Procs : StartPolicy(p) \/ RunPolicy(p)

SpecMiddleware == InitSession /\ [][NextMiddleware]_vars

(* Token lifetimes: the server runs with JWT_EXPIRES_IN and
   JWT_REFRESH_EXPIRES_IN set to ShortTtl seconds, so that tokens expire
   within the clock's range. *)

ShortTtl == 1

NextToken ==
  \/ Tick
  \/ \E p \in Procs :
       \/ StartRegister(p, {"secret1"}, {"school_admin"}, {"users"})
       \/ RegisterCheck(p)
       \/ RegisterCreate(p)
       \/ RegisterSave(p)
       \/ StartMe(p)
       \/ MeProtectWithin(p, ShortTtl)
       \/ MeRun(p)
       \/ StartRefresh(p)
       \/ RefreshFindWithin(p, ShortTtl)
       \/ RefreshSave(p)

SpecToken == InitSession /\ [][NextToken]_vars

(* Sessions: register, login, refresh, logout, onboarding, change-password. *)

NextSession ==
  \/ Tick
  \/ \E p \in Procs :
       \/ StartRegister(p, {"secret1"}, {"school_admin"}, {"users"})
       \/ RegisterCheck(p)
       \/ RegisterCreate(p)
       \/ RegisterSave(p)
       \/ StartLogin(p, {"b@y.com"}, {"secret1"})
       \/ LoginFind(p)
       \/ LoginAdmins(p)
       \/ LoginSchoolAdmins(p)
       \/ LoginLastLogin(p)
       \/ RehashLands(p)
       \/ LoginSave(p)
       \/ StartRefresh(p)
       \/ RefreshFind(p)
       \/ RefreshSave(p)
       \/ StartLogout(p)
       \/ LogoutProtect(p)
       \/ LogoutSave(p)
       \/ StartOnboard(p)
       \/ OnboardProtect(p)
       \/ OnboardSchool(p)
       \/ OnboardSave(p)
       \/ StartChangePassword(p, Passwords)
       \/ ChangePasswordProtect(p)
       \/ ChangePasswordFind(p)
       \/ ChangePasswordSave(p)

SpecSession == InitSession /\ [][NextSession]_vars

(* ------------------------------- claims -------------------------------- *)

\* C1: in every reachable state of the users collection, under any interleaving
\* of Register (both targets), Login (canonical, legacy and env paths) and the
\* profile email update, no two canonical identities have the same email.
C1_UniqueEmail == \A u1, u2 \in users : u1.email = u2.email => u1.id = u2.id

\* A write has been rejected by the unique index (a request ended 500 after
\* its existence check had passed) while two identities exist.
C1_Witness ==
  /\ Cardinality(users) = 2
  /\ \E p \in Procs : req[p].pc = "done" /\ req[p].status = 500
                      /\ req[p].op \in {"register", "profile"}

\* C2: a Login of a registered identity never spoils its credentials: whenever a
\* Login completes with 200 on an identity whose stored passwordHash verified the
\* presented password just before the final write, the identity returned is the
\* one registered under that email and its stored passwordHash still verifies
\* the password afterwards, for any timing of the store writes.
C2_LoginKeepsWorking ==
  [][\A p \in Procs :
       (/\ req[p].op = "login" /\ req[p].pc = "login_save"
        /\ req'[p].pc = "done" /\ req'[p].status = 200
        /\ \E u \in users : u.id = req[p].doc.id /\ BcryptCompare(req[p].pw, u.password))
       => \E u \in users' : /\ u.id = req'[p].outId
                            /\ u.email = req[p].email
                            /\ BcryptCompare(req[p].pw, u.password)]_vars

\* C4: a successful Refresh presenting R rotates it away, whatever the time elapsed
\* since R was issued: the refresh token it returns and stores differs from R, so
\* that R presented again no longer equals the stored token and is rejected.
C4_RefreshRotates ==
  [][\A p \in Procs :
       (/\ req[p].op = "refresh" /\ req[p].pc = "refresh_save"
        /\ req'[p].pc = "done" /\ req'[p].status = 200)
       => /\ req'[p].outRefresh # req[p].tok
          /\ \A u \in users' : u.id = req'[p].outId => u.refreshToken # req[p].tok]_vars

\* C5: two concurrent Refresh calls presenting the same valid refresh token R never
\* both succeed: no state holds two answered Refresh calls for the same R that were
\* both given 200 with a rotated token.
C5_RefreshAtomic ==
  \A p, q \in Procs :
    (/\ p # q
     /\ req[p].op = "refresh" /\ req[p].pc = "done" /\ req[p].status = 200
     /\ req[q].op = "refresh" /\ req[q].pc = "done" /\ req[q].status = 200
     /\ req[p].tok = req[q].tok)
    => (req[p].outRefresh = req[p].tok \/ req[q].outRefresh = req[q].tok)

\* C6: Logins for an email held only by a legacy store, made concurrently with the
\* valid legacy password, leave exactly one canonical identity for that email, and
\* every Login answered 200 returns the id of that one identity.
C6_OneIdentityPerLegacyEmail ==
  /\ \A e \in Emails : Cardinality(UsersByEmail(e)) <= 1
  /\ \A p \in Procs :
       (req[p].op = "login" /\ req[p].pc = "done" /\ req[p].status = 200)
       => /\ Cardinality(UsersByEmail(req[p].email)) = 1
          /\ UsersByEmail(req[p].email) = UsersById(req[p].outId)
C6_Witness ==
  /\ \A p \in Procs : /\ req[p].op = "login" /\ req[p].pc = "done" /\ req[p].status = 200
                      /\ req[p].email = "b@y.com" /\ req[p].via = "adm_upsert"
  /\ req[1].outId = req[2].outId
  /\ Cardinality(users) = 1

\* C7: the legacy stores are probed in the order admins, school_admins, soft-deleted
\* records are skipped, and a Login succeeds through the first legacy store that holds
\* the email and verifies the password: a Login is answered 401 from the legacy
\* probes only when no live record of either store verifies it, and it goes on as a
\* school_admins login only when no live admins record verifies it.
C7_LegacyProbeOrder ==
  [][\A p \in Procs :
       LET e == req[p].email
           verifies(coll) == \E a \in LegacyFind(coll, e) : BcryptCompare(req[p].pw, a.password)
       IN /\ (/\ req[p].pc \in {"login_admins", "login_sadmins"}
              /\ req'[p].pc = "done" /\ req'[p].status = 401)
             => ~(verifies(admins) \/ verifies(schoolAdmins))
          /\ (req[p].pc = "login_sadmins" /\ req'[p].pc = "sadm_upsert")
             => ~verifies(admins)]_vars

\* C3: every read endpoint a school_admin can reach (students list, students
\* search, analytics dashboard) answers a school_admin of tenant T with records of
\* tenant T only, whatever schoolId the request carries or omits.
C3_TenantIsolation ==
  [][\A p \in Procs :
       (/\ req[p].pc \in {"list_run", "search_run", "dash_run"}
        /\ req[p].doc.role = "school_admin"
        /\ req'[p].pc = "done")
       => \A s \in req'[p].out : s.schoolId = req[p].doc.schoolId]_vars

\* C8: on GET /api/students a school_admin of tenant T1 that names another tenant T2
\* is answered 403, and the same identity naming no tenant is answered 200 with
\* the query filtered by T1.
C8_WrongTenantDenied ==
  [][\A p \in Procs :
       LET user == req[p].doc
       IN (/\ req[p].pc = "list_run" /\ req'[p].pc = "done"
           /\ user.role = "school_admin" /\ user.schoolId # 0)
          => /\ (req[p].schoolId \notin {0, user.schoolId}) => req'[p].status = 403
             /\ (req[p].schoolId = 0)
                  => /\ req'[p].status = 200
                     /\ req'[p].filter = user.schoolId
                     /\ req'[p].out = {s \in students : s.schoolId = user.schoolId}]_vars
C8_Witness ==
  /\ req[1].op = "students_list" /\ req[1].pc = "done" /\ req[1].tok.id = 2
  /\ req[1].schoolId = 2 /\ req[1].status = 403
  /\ req[2].op = "students_list" /\ req[2].pc = "done" /\ req[2].tok.id = 2
  /\ req[2].schoolId = 0 /\ req[2].status = 200 /\ req[2].filter = 1 /\ req[2].out # {}

\* C9: a school_admin asking for the deletion of a student is answered 403, of its
\* own tenant or not, unless ENABLE_CRUD_FOR_SCHOOL_ADMIN is enabled, in which case
\* the deletion is allowed to go on.
C9_CrudEscapeHatch ==
  [][\A p \in Procs :
       (/\ req[p].pc = "del_find" /\ req[p].doc.role = "school_admin"
        /\ req'[p].pc # "del_find")
       => IF env.ENABLE_CRUD_FOR_SCHOOL_ADMIN
          THEN req'[p].status # 403
          ELSE req'[p].pc = "done" /\ req'[p].status = 403]_vars

\* C10: a handler behind protect runs only if the bearer access token verifies and
\* the identity it names exists and has isActive = true at that moment; in every
\* other case the request ends with 401 and the handler does not run.
C10_ProtectRequiresActive ==
  [][\A p \in Procs :
       LET tok == req[p].tok
           live == /\ JwtVerify(tok, "access", JWT_EXPIRES_IN)
                   /\ \E u \in users : u.id = tok.id /\ u.isActive
       IN (req[p].pc = "me_protect" /\ req'[p].pc # "me_protect")
          => IF live THEN req'[p].pc = "me_run"
             ELSE req'[p].pc = "done" /\ req'[p].status = 401]_vars

\* C11: no operation issues tokens for an identity whose isActive is false: a
\* Register, Login or Refresh step answers with an access and a refresh token only
\* when the identity they are signed for is active at that moment.
C11_NoTokensForInactive ==
  [][\A p \in Procs :
       (/\ req[p].pc # "done" /\ req'[p].pc = "done"
        /\ req'[p].outAccess # NoToken)
       => \A u \in users : u.id = req'[p].outId => u.isActive]_vars

\* C12: a Register whose email is already held by the canonical users store,
\* whichever target it names, or by the admins store when the target is admins, is
\* ended by its existence check with 400 (EmailTaken) and goes on to create nothing.
C12_RegisterEmailTaken ==
  [][\A p \in Procs :
       LET r == req[p]
           taken == \/ UsersByEmail(r.email) # {}
                    \/ r.target = "admins" /\ \E a \in admins : a.email = r.email
       IN (r.op = "register" /\ r.pc = "reg_check" /\ req'[p].pc # "reg_check" /\ taken)
          => /\ req'[p].pc = "done" /\ req'[p].status = 400
             /\ users' = users /\ admins' = admins]_vars

\* C13: each identity has at most one refresh token that Refresh accepts, the one
\* stored in its refreshToken field: once a Login or Refresh of the identity has
\* completed, every refresh token returned to it earlier differs from the stored
\* one and is therefore rejected.
C13_SingleRefreshToken ==
  [][\A p \in Procs :
       (/\ req[p].op \in {"login", "refresh"} /\ req[p].pc # "done"
        /\ req'[p].pc = "done" /\ req'[p].status = 200)
       => \A t \in issued : \A u \in users' :
            (t.kind = "refresh" /\ t.id = req'[p].outId /\ u.id = t.id)
            => u.refreshToken # t]_vars

\* C14: a successful Logout leaves the identity's stored refreshToken absent, and
\* while it is absent (after the logout, until the next Login stores a new one) no
\* Refresh for that identity is answered 200.
C14_LogoutEndsRefresh ==
  [][\A p \in Procs :
       /\ (req[p].pc = "logout_save" /\ req'[p].pc = "done" /\ req'[p].status = 200)
          => \A u \in users' : u.id = req'[p].outId => u.refreshToken = NoToken
       /\ (/\ req[p].op = "refresh" /\ req[p].pc # "done"
           /\ req'[p].pc = "done" /\ req'[p].status = 200)
          => \A u \in users : u.id = req'[p].outId => u.refreshToken # NoToken]_vars

\* C15: no response of any endpoint, to any caller, contains the password hash of
\* a canonical identity or of a legacy record: no document answered carries a
\* password field.
C15_PasswordHashNeverSerialized ==
  \A p \in Procs :
    req[p].pc = "done" => \A d \in req[p].out : "password" \notin DOMAIN d

\* C16: a Login that materializes a legacy record copies the record's password
\* hash unchanged, and the hash is still the legacy one when that Login has
\* completed, so that a second Login with the same password succeeds: a legacy-path
\* Login answered 200 on an identity holding the legacy hash leaves it holding the
\* legacy hash, which verifies the password.
C16_LegacyHashCopied ==
  [][\A p \in Procs :
       LET r == req[p]
           legacy == {a.password : a \in LegacyFind(admins, r.email)
                                          \cup LegacyFind(schoolAdmins, r.email)}
       IN /\ (/\ r.pc \in {"adm_upsert_insert", "sadm_upsert_insert"}
              /\ req'[p].pc = "login_last")
             => \E u \in users' : u.id = req'[p].doc.id /\ u.password \in legacy
          /\ (/\ r.via # "none" /\ r.pc = "login_save"
              /\ req'[p].pc = "done" /\ req'[p].status = 200
              /\ \E u \in users : u.id = r.doc.id /\ u.password \in legacy)
             => \E u \in users' : /\ u.id = req'[p].outId
                                  /\ u.password \in legacy
                                  /\ BcryptCompare(r.pw, u.password)]_vars

\* C17: Onboard creates one School and sets the identity's schoolId to it,
\* leaving every other field of the identity (role, email, password hash,
\* isActive, refreshToken) and every other identity unchanged; a `me` that
\* follows a completed Onboard of the identity returns it with its schoolId set
\* to a School and with its stored role, which is the role it had before.
C17_OnboardFrame ==
  [][\A p \in Procs :
       LET r == req[p]
       IN /\ (r.pc = "onb_school" /\ req'[p].pc # "onb_school")
             => /\ Cardinality(schools') = Cardinality(schools) + 1
                /\ req'[p].schoolId \in schools' \ schools
                /\ users' = users
          /\ (r.pc = "onb_save" /\ req'[p].pc = "done" /\ req'[p].status = 200)
             => /\ schools' = schools
                /\ r.schoolId \in schools
                /\ users' = {IF u.id = r.doc.id THEN [u EXCEPT !.schoolId = r.schoolId]
                                                ELSE u : u \in users}
                /\ \E u \in users : u.id = r.doc.id
          /\ (/\ r.pc = "me_run" /\ req'[p].pc = "done"
              /\ \E q \in Procs : /\ req[q].op = "onboarding" /\ req[q].pc = "done"
                                  /\ req[q].status = 200 /\ req[q].outId = r.doc.id)
             => /\ users' = users
                /\ \A u \in users : u.id = r.doc.id
                     => /\ req'[p].role = u.role
                        /\ req'[p].role = r.doc.role
                        /\ req'[p].schoolId = u.schoolId
                        /\ req'[p].schoolId \in schools]_vars

\* An Onboard has been answered 200 and a `me` of the same identity that was
\* in flight has then returned the identity with its School.
C17_Witness ==
  \E p, q \in Procs :
    /\ req[p].op = "onboarding" /\ req[p].pc = "done" /\ req[p].status = 200
    /\ req[q].op = "me" /\ req[q].pc = "done" /\ req[q].status = 200
    /\ req[q].outId = req[p].outId /\ req[q].schoolId \in schools
    /\ \E u \in users : u.id = req[p].outId /\ u.schoolId \in schools /\ u.role = req[q].role

\* C18: Onboard takes effect at most once per identity: an Onboard of an
\* identity whose schoolId is already set does not replace it.
C18_OnboardOnce ==
  [][\A p \in Procs :
       (req[p].pc = "onb_save" /\ req'[p].pc = "done")
       => \A u \in users : (u.id = req[p].doc.id /\ u.schoolId # 0)
            => \E v \in users' : v.id = u.id /\ v.schoolId = u.schoolId]_vars

\* C19: email uniqueness in the users collection is case-insensitive: no two
\* identities have emails that are equal up to letter case.
C19_CaseInsensitiveEmail ==
  LET LowerCase(e) == IF e = "A@x.com" THEN "a@x.com" ELSE e
  IN \A u, v \in users : LowerCase(u.email) = LowerCase(v.email) => u.id = v.id

\* C20: canViewData, canAccessSchool and canPerformCRUD each answer 401 when
\* the request has no authenticated identity, each let a super_admin through
\* whatever school the request names, and each answer 403 to an identity whose
\* role is neither super_admin nor school_admin.
C20_PolicyDecisions ==
  \A p \in Procs :
    (req[p].op \in Middlewares /\ req[p].pc = "done")
    => /\ req[p].doc = NoDoc => req[p].status = 401
       /\ (req[p].doc # NoDoc /\ req[p].doc.role = "super_admin") => req[p].status = 0
       /\ (req[p].doc # NoDoc /\ req[p].doc.role \notin {"super_admin", "school_admin"})
          => req[p].status = 403

\* canAccessSchool has let a super_admin of school 1 through to school 2, and
\* canPerformCRUD has answered 401 to a request without identity.
C20_Witness ==
  \E p, q \in Procs :
    /\ req[p].op = "canAccessSchool" /\ req[p].pc = "done" /\ req[p].status = 0
    /\ req[p].doc.role = "super_admin" /\ req[p].doc.schoolId = 1 /\ req[p].schoolId = 2
    /\ req[q].op = "canPerformCRUD" /\ req[q].pc = "done" /\ req[q].status = 401
    /\ req[q].doc = NoDoc

\* C21: an access token issued for an identity verifies to that identity's id
\* at every time before its issuance time plus the access lifetime, and is
\* answered 401 at every time after it; likewise a refresh token with the
\* refresh lifetime (the identity exists and, for Refresh, the token is the
\* stored one).
C21_TokenLifetime ==
  [][\A p \in Procs :
       LET r == req[p]
           tok == r.tok
           u == TheUser(UsersById(tok.id))
       IN /\ (/\ r.pc = "me_protect" /\ req'[p].pc # "me_protect"
              /\ tok \in issued /\ tok.kind = "access")
             => /\ (now < tok.iat + ShortTtl /\ UsersById(tok.id) # {})
                   => req'[p].pc = "me_run" /\ req'[p].doc.id = tok.id
                /\ now > tok.iat + ShortTtl
                   => req'[p].pc = "done" /\ req'[p].status = 401
          /\ (/\ r.pc = "refresh_find" /\ req'[p].pc # "refresh_find"
              /\ tok \in issued /\ tok.kind = "refresh")
             => /\ (/\ now < tok.iat + ShortTtl /\ UsersById(tok.id) # {}
                    /\ u.refreshToken = tok)
                   => req'[p].pc = "refresh_save" /\ req'[p].doc.id = tok.id
                /\ now > tok.iat + ShortTtl
                   => req'[p].pc = "done" /\ req'[p].status = 401]_vars

\* A `me` has been let through with a fresh access token and a Refresh has
\* been answered 401 for a refresh token past its lifetime.
C21_Witness ==
  \E p, q \in Procs :
    /\ req[p].op = "me" /\ req[p].pc = "done" /\ req[p].status = 200
    /\ req[p].tok \in issued /\ req[p].outId = req[p].tok.id
    /\ req[q].op = "refresh" /\ req[q].pc = "done" /\ req[q].status = 401
    /\ req[q].msg = "Refresh token expired"
    /\ req[q].tok \in issued /\ now > req[q].tok.iat + ShortTtl

\* C22: Login answers identically (same status, same body) for an email that
\* no store holds and for an email of an active identity given with a wrong
\* password, on the users path and on each legacy path: each of these logins
\* ends with the one answer 401 'Invalid credentials' without tokens.
C22_NoEnumeration ==
  [][\A p \in Procs :
       LET r == req[p]
           Answer(x) == <<x.status, x.msg, x.outId, x.outAccess, x.outRefresh, x.out>>
           Invalid == <<401, "Invalid credentials", 0, NoToken, NoToken, {}>>
           canon == UsersByEmail(r.email)
           adm == LegacyFind(admins, r.email)
           sadm == LegacyFind(schoolAdmins, r.email)
           nowhere == /\ r.pc = "login_sadmins"
                      /\ canon = {} /\ sadm = {}
                      /\ \A a \in admins \cup schoolAdmins : a.email # r.email
           wrongCanon == /\ r.pc = "login_find" /\ canon # {}
                         /\ TheUser(canon).isActive
                         /\ ~BcryptCompare(r.pw, TheUser(canon).password)
           wrongAdmin == /\ r.pc = "login_admins" /\ adm # {}
                         /\ ~BcryptCompare(r.pw, TheUser(adm).password)
           wrongSchoolAdmin == /\ r.pc = "login_sadmins" /\ sadm # {}
                               /\ ~BcryptCompare(r.pw, TheUser(sadm).password)
       IN (/\ r.op = "login" /\ req'[p].pc # r.pc
           /\ nowhere \/ wrongCanon \/ wrongAdmin \/ wrongSchoolAdmin)
          => req'[p].pc = "done" /\ Answer(req'[p]) = Invalid]_vars

\* A login for the email no store holds and a login with a wrong password for
\* an identity of the users collection have both been answered, alike.
C22_Witness ==
  \E p, q \in Procs :
    /\ req[p].op = "login" /\ req[p].pc = "done" /\ req[p].email = UnknownEmail
    /\ req[q].op = "login" /\ req[q].pc = "done" /\ req[q].status = 401
    /\ req[q].via = "none"
    /\ \E u \in users : /\ u.email = req[q].email /\ u.isActive
                        /\ ~BcryptCompare(req[q].pw, u.password)
    /\ req[p].status = req[q].status /\ req[p].msg = req[q].msg

\* C23: when the materialization write of a legacy login meets the unique
\* index on users.email because a concurrent login has just inserted the
\* identity, the login goes on with the identity now present and the
\* duplicate key is never answered to the caller as an error.
C23_DuplicateKeyRetried ==
  [][\A p \in Procs :
       LET r == req[p]
       IN (/\ r.pc \in {"adm_upsert_insert", "sadm_upsert_insert"}
           /\ req'[p].pc # r.pc
           /\ UpsertDuplicateKey(r.email))
          => /\ req'[p].pc = "login_last"
             /\ req'[p].doc.id = TheUser(UsersByEmail(r.email)).id]_vars

\* C24: a Login or Refresh that fails with 401 leaves the users collection as
\* it was: the step that answers 401 writes nothing, it is taken before any
\* write of the request (the lookups, the legacy probes, the token check), and
\* those steps write nothing either.
C24_FailureWritesNothing ==
  [][\A p \in Procs :
       LET r == req[p]
           reads == {"login_find", "login_admins", "login_sadmins", "refresh_find"}
       IN /\ (/\ r.op \in {"login", "refresh"} /\ r.pc # "done"
              /\ req'[p].pc = "done" /\ req'[p].status = 401)
             => users' = users /\ r.pc \in reads
          /\ (r.op \in {"login", "refresh"} /\ r.pc \in reads /\ req'[p] # r)
             => users' = users]_vars

\* A login with a wrong password for an identity of the users collection and
\* a refresh with a token that is not the stored one have been answered 401.
C24_Witness ==
  \E p, q \in Procs :
    /\ req[p].op = "login" /\ req[p].pc = "done" /\ req[p].status = 401
    /\ \E u \in users : u.email = req[p].email /\ ~BcryptCompare(req[p].pw, u.password)
    /\ req[q].op = "refresh" /\ req[q].pc = "done" /\ req[q].status = 401
    /\ users # {}

\* C25: a Register with target admins that is answered 201 leaves an identity
\* in users and a record in admins for the email, both with the same password
\* hash, against which the registered password verifies.
C25_RegisterMirrorsHash ==
  [][\A p \in Procs :
       LET r == req[p]
       IN (/\ r.op = "register" /\ r.target = "admins" /\ r.pc = "reg_save"
           /\ req'[p].pc = "done" /\ req'[p].status = 201)
          => \E u \in users', a \in admins' :
               /\ u.id = req'[p].outId /\ u.email = r.email /\ a.email = r.email
               /\ a.password = u.password
               /\ BcryptCompare(r.pw, u.password)
               /\ BcryptCompare(r.pw, a.password)]_vars

\* C26: for GET /students/stats/overview, whenever canAccessSchool lets a
\* school_admin's request through, the schoolId the handler filters by equals
\* the admin's own schoolId, for every combination of schoolId values in the
\* body and the query string.
C26_StatsFilterIsOwnSchool ==
  [][\A p \in Procs :
       LET r == req[p]
       IN (/\ r.pc = "stats_run" /\ req'[p].pc = "done"
           /\ r.doc.role = "school_admin"
           /\ canAccessSchool(r.doc, RequestedSchoolId(0, r.bodySchoolId, r.schoolId)) = 0)
          => /\ req'[p].status = 200
             /\ req'[p].filter = r.doc.schoolId
             /\ \A s \in req'[p].out : s.schoolId = r.doc.schoolId]_vars

\* C27: GET /schools answers a school_admin with its own school only: a
\* school_admin whose schoolId is absent (registered, not yet onboarded)
\* receives no school record.
C27_SchoolsListOwnOnly ==
  \A p \in Procs :
    (req[p].op = "schools_list" /\ req[p].pc = "done" /\ req[p].status = 200)
    => \A u \in users :
         (u.id = req[p].outId /\ u.role = "school_admin")
         => \A s \in req[p].out : s.id = u.schoolId

\* C28: a legacy login never overwrites an identity of users that it did not
\* find at its lookup: when a Register for the email has committed between
\* the login's User.findOne and its materialization write, that write leaves
\* the registered identity's password hash and role as the Register left them.
C28_LoginKeepsRegistered ==
  [][\A p \in Procs :
       LET r == req[p]
       IN (/\ r.op = "login"
           /\ r.pc \in {"adm_upsert", "adm_upsert_insert", "sadm_upsert", "sadm_upsert_insert"}
           /\ req'[p].pc # r.pc)
          => \A u \in users :
               u.email = r.email
               => \E v \in users' : /\ v.id = u.id /\ v.password = u.password
                                    /\ v.role = u.role]_vars

\* C29: starting from a consistent database, whenever no student request is
\* in flight, every school's totalStudents equals the number of student
\* records of that school (and so is not negative).
C29_TotalStudentsCounts ==
  (\A p \in Procs : req[p].pc \in {"idle", "done"})
  => \A s \in schools :
       /\ totalStudents[s] = Cardinality({x \in students : x.schoolId = s})
       /\ totalStudents[s] >= 0

\* C30: the password that logs an identity in is the one its Register set or
\* its most recent successful change-password set: the stored hash changes
\* only when a change-password is answered 200, and then to a hash of the new
\* password; a login of an active identity found in users goes on exactly when
\* the given password verifies against the stored hash; a change-password is
\* answered 200 only when currentPassword verifies against the stored hash,
\* and one answered 400 leaves the identity as it was.
C30_PasswordIsTheOneSet ==
  [][/\ \A u \in users, v \in users' :
          (v.id = u.id /\ v.password # u.password)
          => \E p \in Procs :
               /\ req[p].pc = "cp_save" /\ req'[p].pc = "done" /\ req'[p].status = 200
               /\ req[p].doc.id = u.id
               /\ BcryptCompare(req[p].target, v.password)
     /\ \A p \in Procs :
          LET r == req[p]
              found == UsersByEmail(r.email)
          IN /\ (r.pc = "cp_save" /\ req'[p].pc = "done" /\ req'[p].status = 200)
                => \E u \in users : u.id = r.doc.id /\ BcryptCompare(r.pw, u.password)
             /\ (r.op = "change-password" /\ r.pc # "done"
                 /\ req'[p].pc = "done" /\ req'[p].status = 400)
                => users' = users
             /\ (/\ r.pc = "login_find" /\ req'[p].pc # "login_find"
                 /\ found # {} /\ TheUser(found).isActive)
                => (req'[p].pc = "login_last"
                    <=> BcryptCompare(r.pw, TheUser(found).password))]_vars

====
